---- MODULE Spec2Model ----
(***************************************************************************)
(* Request-translation layer of the sozu control client                    *)
(* (bin/src/ctl/request_builder.rs).                                       *)
(*                                                                         *)
(* Every public method of CommandManager takes an already-parsed command,  *)
(* builds at most one Request and hands it to the transport through        *)
(* order_request / order_request_to_all_workers, or returns an error       *)
(* before anything is handed over.                                         *)
(*                                                                         *)
(* State:                                                                  *)
(*   sent  the requests handed to the transport, in order;                 *)
(*   log   one entry per finished call: the method (op), its arguments    *)
(*         (args), the request it built (req, or NoRequest), the error     *)
(*         raised while building it (err, or NoError) and the number of    *)
(*         requests handed over before the call (at);                      *)
(*   reads the paths of the files read by the calls so far, in order.      *)
(* The answer of the transport is outside this layer: an entry with        *)
(* err = NoError returns whatever the transport returns.                   *)
(*                                                                         *)
(* Text that the code parses (socket addresses, hex fingerprints) is a     *)
(* sequence of one-character strings; text that the code only copies       *)
(* (identifiers, host names, paths) is a TLA+ string.                      *)
(***************************************************************************)
EXTENDS Integers, Sequences, FiniteSets, TLC

VARIABLES sent, log, reads

vars == <<sent, log, reads>>

(***************************************************************************)
(* Bounds                                                                  *)
(***************************************************************************)
\* number of calls made on one CommandManager
MaxCalls == 2
\* number of calls in the specifications that enumerate a whole input space
MaxProbes == 1
\* length of the fingerprint strings given to decode_fingerprint
MaxHexLen == 3

(***************************************************************************)
(* Option<T>, anyhow errors                                                *)
(***************************************************************************)
None == [some |-> FALSE]

Some(v) == [some |-> TRUE, v |-> v]

\* an anyhow error is its chain of messages, outermost context first; a
\* message is a tuple of its text and, when it names one, the path it names
NoError == <<>>

\* with_context(|| ctx) on an Err: one more context in front of the chain
with_context(ctx, e) == <<ctx>> \o e

\* Result<T, anyhow::Error>
Ok(v) == [ok |-> TRUE, v |-> v]

Err(e) == [ok |-> FALSE, e |-> e]

NoRequest == [type |-> "NoRequest"]

Range(s) == {s[i] : i \in 1..Len(s)}

(***************************************************************************)
(* The two ends of every method: `?` / bail! on an error, or the hand-over *)
(* to the transport.                                                       *)
(***************************************************************************)
\* an early return with Err(e): nothing reaches the transport
Fail(op, args, e) ==
    /\ sent' = sent
    /\ log' = Append(log, [op |-> op, args |-> args, req |-> NoRequest, err |-> e,
                         at |-> Len(sent)])

\* self.order_request(request): the request is handed over once
order_request(op, args, request) ==
    /\ sent' = Append(sent, request)
    /\ log' = Append(log, [op |-> op, args |-> args, req |-> request, err |-> NoError,
                         at |-> Len(sent)])

\* self.order_request_to_all_workers(request, json)
order_request_to_all_workers(op, args, request, json) ==
    /\ sent' = Append(sent, request)
    /\ log' = Append(log, [op |-> op, args |-> args, req |-> request, err |-> NoError,
                         at |-> Len(sent)])

(***************************************************************************)
(* cluster_command                                                         *)
(***************************************************************************)
ClusterIds == {"c1", "c2"}

LoadBalancingPolicies == {None, Some("RoundRobin")}

ClusterCmds ==
    [variant : {"Add"}, id : ClusterIds, sticky_session : BOOLEAN,
     https_redirect : BOOLEAN, send_proxy : BOOLEAN, expect_proxy : BOOLEAN,
     load_balancing_policy : LoadBalancingPolicies]
    \cup [variant : {"Remove"}, id : ClusterIds]

\* the match on (send_proxy, expect_proxy)
proxy_protocol_swapped(send_proxy, expect_proxy) ==
    CASE send_proxy /\ expect_proxy -> Some("RelayHeader")
      [] send_proxy /\ ~expect_proxy -> Some("ExpectHeader")
      [] ~send_proxy /\ expect_proxy -> Some("SendHeader")
      [] OTHER -> None

proxy_protocol(send_proxy, expect_proxy) ==
    CASE send_proxy /\ expect_proxy -> Some("RelayHeader")
      [] send_proxy /\ ~expect_proxy -> Some("SendHeader")
      [] ~send_proxy /\ expect_proxy -> Some("ExpectHeader")
      [] OTHER -> None

AddClusterRequest_flags_crossed(cmd) ==
    [type |-> "AddCluster",
     cluster_id |-> cmd.id,
     sticky_session |-> cmd.https_redirect,
     https_redirect |-> cmd.sticky_session,
     proxy_protocol |-> proxy_protocol(cmd.send_proxy, cmd.expect_proxy),
     load_balancing |-> cmd.load_balancing_policy,
     load_metric |-> None,
     answer_503 |-> None]

AddClusterRequest(cmd) ==
    [type |-> "AddCluster",
     cluster_id |-> cmd.id,
     sticky_session |-> cmd.sticky_session,
     https_redirect |-> cmd.https_redirect,
     proxy_protocol |-> proxy_protocol(cmd.send_proxy, cmd.expect_proxy),
     load_balancing |-> cmd.load_balancing_policy,
     load_metric |-> None,
     answer_503 |-> None]

cluster_command(cmd) ==
    IF cmd.variant = "Add"
    THEN order_request("cluster_command", cmd, AddClusterRequest(cmd))
    ELSE order_request("cluster_command", cmd,
                       [type |-> "RemoveCluster", cluster_id |-> cmd.id])

(***************************************************************************)
(* State, status, configuration, listing and event commands                *)
(***************************************************************************)
StatePaths == {"state.json"}

save_state(path) ==
    order_request("save_state", [path |-> path], [type |-> "SaveState", path |-> path])

load_state(path) ==
    order_request("load_state", [path |-> path], [type |-> "LoadState", path |-> path])

dump_state(json) ==
    order_request_to_all_workers("dump_state", [json |-> json],
                                 [type |-> "DumpState"], json)

soft_stop ==
    order_request_to_all_workers("soft_stop", [none |-> TRUE],
                                 [type |-> "SoftStop"], FALSE)

hard_stop ==
    order_request_to_all_workers("hard_stop", [none |-> TRUE],
                                 [type |-> "HardStop"], FALSE)

status(json) ==
    order_request_to_all_workers("status", [json |-> json], [type |-> "Status"], json)

\* MetricsCmd has more variants than the three that configure_metrics takes
MetricsCmds == {"Enable", "Disable", "Clear", "Get"}

MetricsConfiguration_clear_as_disabled(cmd) ==
    CASE cmd = "Enable" -> Some("Enabled")
      [] cmd = "Disable" -> Some("Disabled")
      [] cmd = "Clear" -> Some("Disabled")
      [] OTHER -> None

\* the match of configure_metrics; None stands for the arm that bails
MetricsConfiguration(cmd) ==
    CASE cmd = "Enable" -> Some("Enabled")
      [] cmd = "Disable" -> Some("Disabled")
      [] cmd = "Clear" -> Some("Clear")
      [] OTHER -> None

configure_metrics(cmd) ==
    LET configuration == MetricsConfiguration(cmd) IN
    IF configuration = None
    THEN Fail("configure_metrics", [cmd |-> cmd],
              <<<<"The command passed to the configure_metrics function is wrong.">>>>)
    ELSE order_request("configure_metrics", [cmd |-> cmd],
                       [type |-> "ConfigureMetrics", configuration |-> configuration.v])

reload_configuration(path, json) ==
    order_request_to_all_workers("reload_configuration", [path |-> path, json |-> json],
                                 [type |-> "ReloadConfiguration", path |-> path], json)

list_frontends(http, https, tcp, domain) ==
    order_request("list_frontends",
                  [http |-> http, https |-> https, tcp |-> tcp, domain |-> domain],
                  [type |-> "ListFrontends",
                   filters |-> [http |-> http, https |-> https, tcp |-> tcp,
                                domain |-> domain]])

events ==
    order_request("events", [none |-> TRUE], [type |-> "SubscribeEvents"])

list_listeners ==
    order_request("list_listeners", [none |-> TRUE], [type |-> "ListListeners"])

\* filter.to_string().to_lowercase(): the Display form of LoggingLevel, lowercased
LoggingLevels == {"Trace", "Debug", "Error", "Warn", "Info"}

to_lowercase(level) ==
    CASE level = "Trace" -> "trace"
      [] level = "Debug" -> "debug"
      [] level = "Error" -> "error"
      [] level = "Warn" -> "warn"
      [] level = "Info" -> "info"

logging_filter(filter) ==
    order_request("logging_filter", [filter |-> filter],
                  [type |-> "Logging", filter |-> to_lowercase(filter)])

(***************************************************************************)
(* backend_command, tcp_frontend_command                                   *)
(*                                                                         *)
(* The address of a backend or of a frontend is copied into the request as *)
(* text (address.to_string()); these methods do not parse it.              *)
(***************************************************************************)
BackendAddresses == {"127.0.0.1:1026"}

BackendCmds ==
    [variant : {"Add"}, id : {"c1"}, backend_id : {"b1"}, address : BackendAddresses,
     sticky_id : {None, Some("s1")}, backup : {None, Some(TRUE)}]
    \cup [variant : {"Remove"}, id : {"c1"}, backend_id : {"b1"},
          address : BackendAddresses]

\* LoadBalancingParams::default(), the parameters that the library sets
LoadBalancingParams_default == "LoadBalancingParams::default()"

backend_command(cmd) ==
    IF cmd.variant = "Add"
    THEN order_request("backend_command", cmd,
                       [type |-> "AddBackend",
                        cluster_id |-> cmd.id,
                        address |-> cmd.address,
                        backend_id |-> cmd.backend_id,
                        load_balancing_parameters |-> Some(LoadBalancingParams_default),
                        sticky_id |-> cmd.sticky_id,
                        backup |-> cmd.backup])
    ELSE order_request("backend_command", cmd,
                       [type |-> "RemoveBackend",
                        cluster_id |-> cmd.id,
                        address |-> cmd.address,
                        backend_id |-> cmd.backend_id])

\* a tag map (BTreeMap<String, String>) is the set of its (key, value) pairs
EmptyTags == {}

TagMaps == {EmptyTags, {<<"owner", "ops">>}}

TcpFrontendCmds ==
    [variant : {"Add"}, id : {"c1"}, address : BackendAddresses,
     tags : {None} \cup {Some(t) : t \in TagMaps}]
    \cup [variant : {"Remove"}, id : {"c1"}, address : BackendAddresses]

tcp_frontend_command(cmd) ==
    IF cmd.variant = "Add"
    THEN order_request("tcp_frontend_command", cmd,
                       [type |-> "AddTcpFrontend",
                        cluster_id |-> cmd.id,
                        address |-> cmd.address,
                        tags |-> cmd.tags])
    ELSE order_request("tcp_frontend_command", cmd,
                       [type |-> "RemoveTcpFrontend",
                        cluster_id |-> cmd.id,
                        address |-> cmd.address,
                        tags |-> None])

(***************************************************************************)
(* http_frontend_command, https_frontend_command                           *)
(***************************************************************************)
\* Route of the command line: deny the traffic or send it to a cluster
Routes == {[deny |-> TRUE], [deny |-> FALSE, cluster_id |-> "c1"]}

\* route.into(): the Option<String> cluster_id of the descriptor
RouteInto(route) == IF route.deny THEN None ELSE Some(route.cluster_id)

\* method.map(String::from)
Methods == {None, Some("GET")}

\* PathRule::from_cli_options(path_prefix, path_regex, path_equals)
from_cli_options(path_prefix, path_regex, path_equals) ==
    CASE path_prefix.some -> [kind |-> "Prefix", value |-> path_prefix.v]
      [] path_regex.some -> [kind |-> "Regex", value |-> path_regex.v]
      [] path_equals.some -> [kind |-> "Equals", value |-> path_equals.v]
      [] OTHER -> [kind |-> "Prefix", value |-> ""]

HttpFrontendCmds ==
    [variant : {"Add"}, hostname : {"example.com"},
     path_prefix : {None, Some("/api")}, path_regex : {None, Some("/v[0-9]+")},
     path_equals : {None, Some("/health")}, address : BackendAddresses,
     method : Methods, cluster_id : Routes,
     tags : {None} \cup {Some(t) : t \in TagMaps}]
    \cup [variant : {"Remove"}, hostname : {"example.com"},
          path_prefix : {None, Some("/api")}, path_regex : {None, Some("/v[0-9]+")},
          path_equals : {None, Some("/health")}, address : BackendAddresses,
          method : Methods, cluster_id : Routes]

\* the RequestHttpFrontend of the Add arm of http_frontend_command
AddFrontend(cmd) ==
    [cluster_id |-> RouteInto(cmd.cluster_id),
     address |-> cmd.address,
     hostname |-> cmd.hostname,
     path |-> from_cli_options(cmd.path_prefix, cmd.path_regex, cmd.path_equals),
     method |-> cmd.method,
     position |-> "Tree",
     tags |-> IF cmd.tags.some THEN cmd.tags.v ELSE EmptyTags]

RemoveFrontend_no_method(cmd) ==
    [cluster_id |-> RouteInto(cmd.cluster_id),
     address |-> cmd.address,
     hostname |-> cmd.hostname,
     path |-> from_cli_options(cmd.path_prefix, cmd.path_regex, cmd.path_equals),
     method |-> None,
     position |-> "Tree",
     tags |-> EmptyTags]

\* the RequestHttpFrontend of the Remove arm of http_frontend_command
RemoveFrontend(cmd) ==
    [cluster_id |-> RouteInto(cmd.cluster_id),
     address |-> cmd.address,
     hostname |-> cmd.hostname,
     path |-> from_cli_options(cmd.path_prefix, cmd.path_regex, cmd.path_equals),
     method |-> cmd.method,
     position |-> "Tree",
     tags |-> EmptyTags]

\* the RequestHttpFrontend of the Add arm of https_frontend_command
AddHttpsFrontend(cmd) ==
    [cluster_id |-> RouteInto(cmd.cluster_id),
     address |-> cmd.address,
     hostname |-> cmd.hostname,
     path |-> from_cli_options(cmd.path_prefix, cmd.path_regex, cmd.path_equals),
     method |-> cmd.method,
     position |-> "Tree",
     tags |-> IF cmd.tags.some THEN cmd.tags.v ELSE EmptyTags]

\* the RequestHttpFrontend of the Remove arm of https_frontend_command
RemoveHttpsFrontend(cmd) ==
    [cluster_id |-> RouteInto(cmd.cluster_id),
     address |-> cmd.address,
     hostname |-> cmd.hostname,
     path |-> from_cli_options(cmd.path_prefix, cmd.path_regex, cmd.path_equals),
     method |-> cmd.method,
     position |-> "Tree",
     tags |-> EmptyTags]

http_frontend_command(cmd) ==
    IF cmd.variant = "Add"
    THEN order_request("http_frontend_command", cmd,
                       [type |-> "AddHttpFrontend", frontend |-> AddFrontend(cmd)])
    ELSE order_request("http_frontend_command", cmd,
                       [type |-> "RemoveHttpFrontend", frontend |-> RemoveFrontend(cmd)])

https_frontend_command(cmd) ==
    IF cmd.variant = "Add"
    THEN order_request("https_frontend_command", cmd,
                       [type |-> "AddHttpsFrontend", frontend |-> AddHttpsFrontend(cmd)])
    ELSE order_request("https_frontend_command", cmd,
                       [type |-> "RemoveHttpsFrontend",
                        frontend |-> RemoveHttpsFrontend(cmd)])

(***************************************************************************)
(* Socket addresses: address.parse::<SocketAddr>()                         *)
(*                                                                         *)
(* The texts of the model are IPv4 texts or words, which is the part of    *)
(* the grammar modelled here: four decimal octets of one to three digits,  *)
(* none above 255 and none with a leading zero, a colon, a decimal port of *)
(* at most 65535.                                                          *)
(***************************************************************************)
DecDigits == <<"0", "1", "2", "3", "4", "5", "6", "7", "8", "9">>

DigitValue(c) == (CHOOSE i \in 1..Len(DecDigits) : DecDigits[i] = c) - 1

AllDecDigits(s) == \A i \in 1..Len(s) : s[i] \in Range(DecDigits)

RECURSIVE DecimalValue(_)
DecimalValue(s) ==
    IF s = <<>> THEN 0
    ELSE 10 * DecimalValue(SubSeq(s, 1, Len(s) - 1)) + DigitValue(s[Len(s)])

RECURSIVE Split(_, _)
Split(s, sep) ==
    IF \A i \in 1..Len(s) : s[i] # sep THEN <<s>>
    ELSE LET i == CHOOSE k \in 1..Len(s) :
                      s[k] = sep /\ \A j \in 1..(k - 1) : s[j] # sep
         IN <<SubSeq(s, 1, i - 1)>> \o Split(SubSeq(s, i + 1, Len(s)), sep)

IsOctet(s) ==
    /\ Len(s) \in 1..3
    /\ AllDecDigits(s)
    /\ (Len(s) > 1 => s[1] # "0")
    /\ DecimalValue(s) <= 255

IsPort(s) ==
    /\ Len(s) \in 1..5
    /\ AllDecDigits(s)
    /\ DecimalValue(s) <= 65535

SocketAddrParse(address) ==
    LET parts == Split(address, ":") IN
    IF Len(parts) # 2 THEN Err(<<<<"invalid socket address syntax">>>>)
    ELSE LET octets == Split(parts[1], ".") IN
         IF Len(octets) = 4 /\ (\A i \in 1..4 : IsOctet(octets[i])) /\ IsPort(parts[2])
         THEN Ok([ip |-> [i \in 1..4 |-> DecimalValue(octets[i])],
                  port |-> DecimalValue(parts[2])])
         ELSE Err(<<<<"invalid socket address syntax">>>>)

\* "127.0.0.1:8080"
LocalAddress == <<"1", "2", "7", ".", "0", ".", "0", ".", "1", ":", "8", "0", "8", "0">>

\* "10.0.0.2:443"
PrivateAddress == <<"1", "0", ".", "0", ".", "0", ".", "2", ":", "4", "4", "3">>

\* "not-an-address"
NotAnAddress ==
    <<"n", "o", "t", "-", "a", "n", "-", "a", "d", "d", "r", "e", "s", "s">>

\* "127.0.0.1": no port
NoPortAddress == <<"1", "2", "7", ".", "0", ".", "0", ".", "1">>

\* "256.0.0.1:80": an octet out of range
BigOctetAddress == <<"2", "5", "6", ".", "0", ".", "0", ".", "1", ":", "8", "0">>

AddressTexts ==
    {LocalAddress, PrivateAddress, NotAnAddress, NoPortAddress, BigOctetAddress}

ListenerTypes == {"HTTP", "HTTPS", "TCP"}

(***************************************************************************)
(* remove_listener, activate_listener, deactivate_listener                 *)
(***************************************************************************)
remove_listener_as_http(op, args, address, proxy) ==
    LET parsed == SocketAddrParse(address) IN
    IF ~parsed.ok
    THEN Fail(op, args, with_context(<<"wrong socket address">>, parsed.e))
    ELSE order_request(op, args,
                       [type |-> "RemoveListener", address |-> parsed.v,
                        proxy |-> "HTTP"])

remove_listener(op, args, address, proxy) ==
    LET parsed == SocketAddrParse(address) IN
    IF ~parsed.ok
    THEN Fail(op, args, with_context(<<"wrong socket address">>, parsed.e))
    ELSE order_request(op, args,
                       [type |-> "RemoveListener", address |-> parsed.v,
                        proxy |-> proxy])

activate_listener(op, args, address, proxy) ==
    LET parsed == SocketAddrParse(address) IN
    IF ~parsed.ok
    THEN Fail(op, args, with_context(<<"wrong socket address">>, parsed.e))
    ELSE order_request(op, args,
                       [type |-> "ActivateListener", address |-> parsed.v,
                        proxy |-> proxy, from_scm |-> FALSE])

deactivate_listener(op, args, address, proxy) ==
    LET parsed == SocketAddrParse(address) IN
    IF ~parsed.ok
    THEN Fail(op, args, with_context(<<"wrong socket address">>, parsed.e))
    ELSE order_request(op, args,
                       [type |-> "DeactivateListener", address |-> parsed.v,
                        proxy |-> proxy, to_scm |-> FALSE])

(***************************************************************************)
(* ListenerBuilder: the accumulator of optional fields and its finalize    *)
(* step to_http / to_tls / to_tcp, which parses the addresses and fails on *)
(* a malformed one. Fields left unset are filled by the library's defaults *)
(* for the protocol; the descriptor below keeps them as Option.            *)
(***************************************************************************)
ListenerBuilder_new(protocol, address) ==
    [protocol |-> protocol, address |-> address, public_address |-> None,
     answer_404 |-> None, answer_503 |-> None, tls_versions |-> None,
     cipher_list |-> None, expect_proxy |-> None, sticky_name |-> None,
     front_timeout |-> None, back_timeout |-> None, request_timeout |-> None,
     connect_timeout |-> None]

ListenerBuilder_finalize(builder, protocol) ==
    LET address == SocketAddrParse(builder.address)
        public_address ==
            IF builder.public_address.some
            THEN SocketAddrParse(builder.public_address.v)
            ELSE Ok(None)
    IN  IF builder.protocol # protocol
        THEN Err(<<<<"wrong listener protocol">>>>)
        ELSE IF ~address.ok
        THEN Err(with_context(<<"could not parse address">>, address.e))
        ELSE IF ~public_address.ok
        THEN Err(with_context(<<"could not parse public address">>, public_address.e))
        ELSE Ok([builder EXCEPT
                    !.address = address.v,
                    !.public_address =
                        IF builder.public_address.some
                        THEN Some(public_address.v) ELSE None])

(***************************************************************************)
(* https_listener_command, http_listener_command, tcp_listener_command     *)
(***************************************************************************)
PublicAddresses == {None, Some(PrivateAddress)}

HttpsListenerCmds ==
    [variant : {"Add"}, address : AddressTexts, public_address : PublicAddresses,
     answer_404 : {None}, answer_503 : {None}, tls_versions : {None},
     cipher_list : {None}, expect_proxy : BOOLEAN, sticky_name : {None},
     front_timeout : {None}, back_timeout : {None}, request_timeout : {None},
     connect_timeout : {None}]
    \cup [variant : {"Remove", "Activate", "Deactivate"}, address : AddressTexts]

HttpListenerCmds ==
    [variant : {"Add"}, address : AddressTexts, public_address : PublicAddresses,
     answer_404 : {None}, answer_503 : {None}, expect_proxy : BOOLEAN,
     sticky_name : {None}, front_timeout : {None}, back_timeout : {None},
     request_timeout : {None}, connect_timeout : {None}]
    \cup [variant : {"Remove", "Activate", "Deactivate"}, address : AddressTexts]

TcpListenerCmds ==
    [variant : {"Add"}, address : AddressTexts, public_address : PublicAddresses,
     expect_proxy : BOOLEAN]
    \cup [variant : {"Remove", "Activate", "Deactivate"}, address : AddressTexts]

https_listener_command(cmd) ==
    CASE cmd.variant = "Add" ->
           LET https_listener ==
                   ListenerBuilder_finalize(
                       [ListenerBuilder_new("HTTPS", cmd.address) EXCEPT
                           !.public_address = cmd.public_address,
                           !.answer_404 = cmd.answer_404,
                           !.answer_503 = cmd.answer_503,
                           !.tls_versions = cmd.tls_versions,
                           !.cipher_list = cmd.cipher_list,
                           !.expect_proxy = Some(cmd.expect_proxy),
                           !.sticky_name = cmd.sticky_name,
                           !.front_timeout = cmd.front_timeout,
                           !.back_timeout = cmd.back_timeout,
                           !.request_timeout = cmd.request_timeout,
                           !.connect_timeout = cmd.connect_timeout],
                       "HTTPS")
           IN  IF ~https_listener.ok
               THEN Fail("https_listener_command", cmd,
                         with_context(<<"Error creating HTTPS listener">>, https_listener.e))
               ELSE order_request("https_listener_command", cmd,
                                  [type |-> "AddHttpsListener",
                                   listener |-> https_listener.v])
      [] cmd.variant = "Remove" ->
           remove_listener("https_listener_command", cmd, cmd.address, "HTTPS")
      [] cmd.variant = "Activate" ->
           activate_listener("https_listener_command", cmd, cmd.address, "HTTPS")
      [] cmd.variant = "Deactivate" ->
           deactivate_listener("https_listener_command", cmd, cmd.address, "HTTPS")

http_listener_command(cmd) ==
    CASE cmd.variant = "Add" ->
           LET http_listener ==
                   ListenerBuilder_finalize(
                       [ListenerBuilder_new("HTTP", cmd.address) EXCEPT
                           !.public_address = cmd.public_address,
                           !.answer_404 = cmd.answer_404,
                           !.answer_503 = cmd.answer_503,
                           !.expect_proxy = Some(cmd.expect_proxy),
                           !.sticky_name = cmd.sticky_name,
                           !.front_timeout = cmd.front_timeout,
                           !.request_timeout = cmd.request_timeout,
                           !.back_timeout = cmd.back_timeout,
                           !.connect_timeout = cmd.connect_timeout],
                       "HTTP")
           IN  IF ~http_listener.ok
               THEN Fail("http_listener_command", cmd,
                         with_context(<<"Error creating HTTP listener">>, http_listener.e))
               ELSE order_request("http_listener_command", cmd,
                                  [type |-> "AddHttpListener",
                                   listener |-> http_listener.v])
      [] cmd.variant = "Remove" ->
           remove_listener("http_listener_command", cmd, cmd.address, "HTTP")
      [] cmd.variant = "Activate" ->
           activate_listener("http_listener_command", cmd, cmd.address, "HTTP")
      [] cmd.variant = "Deactivate" ->
           deactivate_listener("http_listener_command", cmd, cmd.address, "HTTP")

tcp_listener_command(cmd) ==
    CASE cmd.variant = "Add" ->
           LET listener ==
                   ListenerBuilder_finalize(
                       [ListenerBuilder_new("TCP", cmd.address) EXCEPT
                           !.public_address = cmd.public_address,
                           !.expect_proxy = Some(cmd.expect_proxy)],
                       "TCP")
           IN  IF ~listener.ok
               THEN Fail("tcp_listener_command", cmd,
                         with_context(<<"Could not create TCP listener">>, listener.e))
               ELSE order_request("tcp_listener_command", cmd,
                                  [type |-> "AddTcpListener", listener |-> listener.v])
      [] cmd.variant = "Remove" ->
           remove_listener("tcp_listener_command", cmd, cmd.address, "TCP")
      [] cmd.variant = "Activate" ->
           activate_listener("tcp_listener_command", cmd, cmd.address, "TCP")
      [] cmd.variant = "Deactivate" ->
           deactivate_listener("tcp_listener_command", cmd, cmd.address, "TCP")

(***************************************************************************)
(* Files                                                                   *)
(*                                                                         *)
(* A file content is the sequence of its PEM blocks. The disk holds a      *)
(* certificate, a chain of two certificates, a key and a file that is not  *)
(* a certificate; every other path cannot be read.                         *)
(***************************************************************************)
CertificateFile == <<[label |-> "CERTIFICATE", der |-> <<48, 130, 1>>]>>

ChainFile ==
    <<[label |-> "CERTIFICATE", der |-> <<48, 130, 2>>],
      [label |-> "CERTIFICATE", der |-> <<48, 130, 3>>]>>

KeyFile == <<[label |-> "PRIVATE KEY", der |-> <<48, 129, 4>>]>>

GarbageFile == <<[label |-> "NOTE", der |-> <<0>>]>>

Disk(path) ==
    CASE path = "cert.pem" -> Some(CertificateFile)
      [] path = "chain.pem" -> Some(ChainFile)
      [] path = "key.pem" -> Some(KeyFile)
      [] path = "garbage.pem" -> Some(GarbageFile)
      [] OTHER -> None

\* Config::load_file(path), Config::load_file_bytes(path)
load_file(path) ==
    IF Disk(path).some THEN Ok(Disk(path).v)
    ELSE Err(<<<<"No such file or directory">>>>)

load_file_bytes(path) ==
    IF Disk(path).some THEN Ok(Disk(path).v)
    ELSE Err(<<<<"No such file or directory">>>>)

\* split_certificate_chain(chain): one entry per certificate, in file order
split_certificate_chain(chain) == [i \in 1..Len(chain) |-> <<chain[i]>>]

\* the digest of a byte string, cut to one byte
RECURSIVE Digest(_)
Digest(bytes) ==
    IF bytes = <<>> THEN 7
    ELSE (31 * Digest(SubSeq(bytes, 1, Len(bytes) - 1)) + bytes[Len(bytes)]) % 256

\* calculate_fingerprint(bytes): the digest of the first certificate of the file
calculate_fingerprint(bytes) ==
    IF bytes # <<>> /\ bytes[1].label = "CERTIFICATE"
    THEN Ok(<<Digest(bytes[1].der)>>)
    ELSE Err(<<<<"could not parse the certificate">>>>)

(***************************************************************************)
(* Fingerprints: hex::decode                                               *)
(***************************************************************************)
LowerHexLetters == <<"a", "b", "c", "d", "e", "f">>

UpperHexLetters == <<"A", "B", "C", "D", "E", "F">>

IsHexDigit(c) ==
    c \in Range(DecDigits) \cup Range(LowerHexLetters) \cup Range(UpperHexLetters)

HexValue(c) ==
    CASE c \in Range(DecDigits) -> DigitValue(c)
      [] c \in Range(LowerHexLetters) ->
           9 + (CHOOSE i \in 1..6 : LowerHexLetters[i] = c)
      [] c \in Range(UpperHexLetters) ->
           9 + (CHOOSE i \in 1..6 : UpperHexLetters[i] = c)

\* hex::decode(text)
hex_decode(text) ==
    IF Len(text) % 2 # 0 THEN Err(<<<<"Odd number of digits">>>>)
    ELSE IF \E i \in 1..Len(text) : ~IsHexDigit(text[i])
    THEN Err(<<<<"Invalid character">>>>)
    ELSE Ok([i \in 1..(Len(text) \div 2) |->
                16 * HexValue(text[2 * i - 1]) + HexValue(text[2 * i])])

decode_fingerprint_or_empty(fingerprint) ==
    LET bytes == hex_decode(fingerprint) IN
    IF ~bytes.ok THEN Ok(<<>>) ELSE Ok(bytes.v)

decode_fingerprint(fingerprint) ==
    LET bytes == hex_decode(fingerprint) IN
    IF ~bytes.ok
    THEN Err(with_context(<<"Failed at decoding the string (expected hexadecimal data)">>,
                          bytes.e))
    ELSE Ok(bytes.v)

\* a result together with the paths of the files read to obtain it, in order
Traced(result, paths) == [res |-> result, reads |-> paths]

get_fingerprint_from_certificate_path(certificate_path) ==
    LET bytes == load_file_bytes(certificate_path) IN
    IF ~bytes.ok
    THEN Traced(Err(with_context(<<"could not load certificate file on path",
                                   certificate_path>>, bytes.e)),
                <<certificate_path>>)
    ELSE LET parsed_bytes == calculate_fingerprint(bytes.v) IN
         IF ~parsed_bytes.ok
         THEN Traced(Err(with_context(
                         <<"could not calculate fingerprint for the certificate at",
                           certificate_path>>, parsed_bytes.e)),
                     <<certificate_path>>)
         ELSE Traced(Ok(parsed_bytes.v), <<certificate_path>>)

(***************************************************************************)
(* load_full_certificate                                                   *)
(***************************************************************************)
load_full_certificate_key_first(certificate_path, certificate_chain_path, key_path, versions) ==
    LET certificate == load_file(certificate_path)
        certificate_chain == load_file(certificate_chain_path)
        key == load_file(key_path)
    IN  IF ~key.ok
        THEN Traced(Err(with_context(<<"Could not load key file on path", key_path>>,
                                     key.e)),
                    <<key_path>>)
        ELSE IF ~certificate.ok
        THEN Traced(Err(with_context(<<"Could not load certificate file on path",
                                       certificate_path>>, certificate.e)),
                    <<key_path, certificate_path>>)
        ELSE IF ~certificate_chain.ok
        THEN Traced(Err(with_context(<<"could not load certificate chain on path:",
                                       certificate_chain_path>>, certificate_chain.e)),
                    <<key_path, certificate_path, certificate_chain_path>>)
        ELSE Traced(Ok([certificate |-> certificate.v,
                        certificate_chain |->
                            split_certificate_chain(certificate_chain.v),
                        key |-> key.v,
                        versions |-> versions]),
                    <<key_path, certificate_path, certificate_chain_path>>)

load_full_certificate(certificate_path, certificate_chain_path, key_path, versions) ==
    LET certificate == load_file(certificate_path)
        certificate_chain == load_file(certificate_chain_path)
        key == load_file(key_path)
    IN  IF ~certificate.ok
        THEN Traced(Err(with_context(<<"Could not load certificate file on path",
                                       certificate_path>>, certificate.e)),
                    <<certificate_path>>)
        ELSE IF ~certificate_chain.ok
        THEN Traced(Err(with_context(<<"could not load certificate chain on path:",
                                       certificate_chain_path>>, certificate_chain.e)),
                    <<certificate_path, certificate_chain_path>>)
        ELSE IF ~key.ok
        THEN Traced(Err(with_context(<<"Could not load key file on path", key_path>>,
                                     key.e)),
                    <<certificate_path, certificate_chain_path, key_path>>)
        ELSE Traced(Ok([certificate |-> certificate.v,
                        certificate_chain |->
                            split_certificate_chain(certificate_chain.v),
                        key |-> key.v,
                        versions |-> versions]),
                    <<certificate_path, certificate_chain_path, key_path>>)

(***************************************************************************)
(* add_certificate, replace_certificate, remove_certificate                *)
(***************************************************************************)
CertificateAddresses == {"127.0.0.1:8443"}

TlsVersionLists == {<<"TLS_V12", "TLS_V13">>}

AddCertificateArgs ==
    [address : CertificateAddresses,
     certificate_path : {"cert.pem", "nocert.pem"},
     certificate_chain_path : {"chain.pem", "nochain.pem"},
     key_path : {"key.pem", "nokey.pem"},
     versions : TlsVersionLists]

\* the texts given as a fingerprint in the certificate commands: "a0", "g0"
FingerprintTexts == {<<"a", "0">>, <<"g", "0">>}

OldCertificatePaths == {"cert.pem", "nocert.pem", "garbage.pem"}

ReplaceCertificateArgs ==
    [address : CertificateAddresses,
     new_certificate_path : {"cert.pem", "nocert.pem"},
     new_certificate_chain_path : {"chain.pem", "nochain.pem"},
     new_key_path : {"key.pem", "nokey.pem"},
     old_certificate_path : {None} \cup {Some(q) : q \in OldCertificatePaths},
     old_fingerprint : {None} \cup {Some(f) : f \in FingerprintTexts},
     versions : TlsVersionLists]

RemoveCertificateArgs ==
    [address : CertificateAddresses,
     certificate_path : {None} \cup {Some(q) : q \in OldCertificatePaths},
     fingerprint : {None} \cup {Some(f) : f \in FingerprintTexts}]

add_certificate(a) ==
    LET new_certificate ==
            load_full_certificate(a.certificate_path, a.certificate_chain_path,
                                  a.key_path, a.versions)
    IN  /\ reads' = reads \o new_certificate.reads
        /\ IF ~new_certificate.res.ok
           THEN Fail("add_certificate", a,
                     with_context(<<"Could not load the full certificate">>,
                                  new_certificate.res.e))
           ELSE order_request("add_certificate", a,
                              [type |-> "AddCertificate",
                               address |-> a.address,
                               certificate |-> new_certificate.res.v,
                               names |-> <<>>,
                               expired_at |-> None])

replace_old_fingerprint_path_wins(old_certificate_path, old_fingerprint) ==
    CASE old_certificate_path.some ->
           LET fingerprint ==
                   get_fingerprint_from_certificate_path(old_certificate_path.v)
           IN  IF ~fingerprint.res.ok
               THEN Traced(Err(with_context(
                               <<"Could not retrieve the fingerprint from the given certificate path">>,
                               fingerprint.res.e)),
                           fingerprint.reads)
               ELSE fingerprint
      [] ~old_certificate_path.some /\ old_fingerprint.some ->
           LET fingerprint == decode_fingerprint(old_fingerprint.v) IN
           IF ~fingerprint.ok
           THEN Traced(Err(with_context(<<"Error decoding the given fingerprint">>,
                                        fingerprint.e)),
                       <<>>)
           ELSE Traced(fingerprint, <<>>)
      [] OTHER ->
           Traced(Err(<<<<"Error: Please provide either one, the old certificate's path OR its fingerprint">>>>),
                  <<>>)

\* the match on (old_certificate_path, old_fingerprint) of replace_certificate
replace_old_fingerprint(old_certificate_path, old_fingerprint) ==
    CASE old_certificate_path.some = old_fingerprint.some ->
           Traced(Err(<<<<"Error: Please provide either one, the old certificate's path OR its fingerprint">>>>),
                  <<>>)
      [] old_certificate_path.some /\ ~old_fingerprint.some ->
           LET fingerprint ==
                   get_fingerprint_from_certificate_path(old_certificate_path.v)
           IN  IF ~fingerprint.res.ok
               THEN Traced(Err(with_context(
                               <<"Could not retrieve the fingerprint from the given certificate path">>,
                               fingerprint.res.e)),
                           fingerprint.reads)
               ELSE fingerprint
      [] ~old_certificate_path.some /\ old_fingerprint.some ->
           LET fingerprint == decode_fingerprint(old_fingerprint.v) IN
           IF ~fingerprint.ok
           THEN Traced(Err(with_context(<<"Error decoding the given fingerprint">>,
                                        fingerprint.e)),
                       <<>>)
           ELSE Traced(fingerprint, <<>>)

replace_certificate_loads_first(a) ==
    LET old_fingerprint ==
            replace_old_fingerprint(a.old_certificate_path, a.old_fingerprint)
        new_certificate ==
            load_full_certificate(a.new_certificate_path, a.new_certificate_chain_path,
                                  a.new_key_path, a.versions)
    IN  IF ~new_certificate.res.ok
        THEN /\ reads' = reads \o new_certificate.reads
             /\ Fail("replace_certificate", a,
                     with_context(<<"Could not load the full certificate">>,
                                  new_certificate.res.e))
        ELSE /\ reads' = reads \o new_certificate.reads \o old_fingerprint.reads
             /\ IF ~old_fingerprint.res.ok
                THEN Fail("replace_certificate", a, old_fingerprint.res.e)
                ELSE order_request("replace_certificate", a,
                                   [type |-> "ReplaceCertificate",
                                    address |-> a.address,
                                    new_certificate |-> new_certificate.res.v,
                                    old_fingerprint |-> old_fingerprint.res.v,
                                    new_names |-> <<>>,
                                    new_expired_at |-> None])

replace_certificate_sends_before_load(a) ==
    LET old_fingerprint ==
            replace_old_fingerprint(a.old_certificate_path, a.old_fingerprint)
        new_certificate ==
            load_full_certificate(a.new_certificate_path, a.new_certificate_chain_path,
                                  a.new_key_path, a.versions)
    IN  IF ~old_fingerprint.res.ok
        THEN /\ reads' = reads \o old_fingerprint.reads
             /\ Fail("replace_certificate", a, old_fingerprint.res.e)
        ELSE /\ reads' = reads \o old_fingerprint.reads \o new_certificate.reads
             /\ IF ~new_certificate.res.ok
                THEN /\ sent' = Append(sent, [type |-> "ReplaceCertificate",
                                              address |-> a.address,
                                              old_fingerprint |-> old_fingerprint.res.v])
                     /\ log' = Append(log,
                            [op |-> "replace_certificate", args |-> a,
                             req |-> NoRequest,
                             err |-> with_context(
                                        <<"Could not load the full certificate">>,
                                        new_certificate.res.e),
                             at |-> Len(sent)])
                ELSE order_request("replace_certificate", a,
                                   [type |-> "ReplaceCertificate",
                                    address |-> a.address,
                                    new_certificate |-> new_certificate.res.v,
                                    old_fingerprint |-> old_fingerprint.res.v,
                                    new_names |-> <<>>,
                                    new_expired_at |-> None])

replace_certificate(a) ==
    LET old_fingerprint ==
            replace_old_fingerprint(a.old_certificate_path, a.old_fingerprint)
        new_certificate ==
            load_full_certificate(a.new_certificate_path, a.new_certificate_chain_path,
                                  a.new_key_path, a.versions)
    IN  IF ~old_fingerprint.res.ok
        THEN /\ reads' = reads \o old_fingerprint.reads
             /\ Fail("replace_certificate", a, old_fingerprint.res.e)
        ELSE /\ reads' = reads \o old_fingerprint.reads \o new_certificate.reads
             /\ IF ~new_certificate.res.ok
                THEN Fail("replace_certificate", a,
                          with_context(<<"Could not load the full certificate">>,
                                       new_certificate.res.e))
                ELSE order_request("replace_certificate", a,
                                   [type |-> "ReplaceCertificate",
                                    address |-> a.address,
                                    new_certificate |-> new_certificate.res.v,
                                    old_fingerprint |-> old_fingerprint.res.v,
                                    new_names |-> <<>>,
                                    new_expired_at |-> None])

remove_fingerprint_fingerprint_wins(certificate_path, fingerprint) ==
    CASE fingerprint.some ->
           LET decoded == decode_fingerprint(fingerprint.v) IN
           IF ~decoded.ok
           THEN Traced(Err(with_context(<<"Error decoding the given fingerprint">>,
                                        decoded.e)),
                       <<>>)
           ELSE Traced(decoded, <<>>)
      [] certificate_path.some /\ ~fingerprint.some ->
           LET from_path == get_fingerprint_from_certificate_path(certificate_path.v)
           IN  IF ~from_path.res.ok
               THEN Traced(Err(with_context(
                               <<"Could not retrieve the finger print from the given certificate path">>,
                               from_path.res.e)),
                           from_path.reads)
               ELSE from_path
      [] OTHER ->
           Traced(Err(<<<<"Error: Please provide either one, the path OR the fingerprint of the certificate">>>>),
                  <<>>)

\* the match on (certificate_path, fingerprint) of remove_certificate
remove_fingerprint(certificate_path, fingerprint) ==
    CASE certificate_path.some = fingerprint.some ->
           Traced(Err(<<<<"Error: Please provide either one, the path OR the fingerprint of the certificate">>>>),
                  <<>>)
      [] certificate_path.some /\ ~fingerprint.some ->
           LET from_path == get_fingerprint_from_certificate_path(certificate_path.v)
           IN  IF ~from_path.res.ok
               THEN Traced(Err(with_context(
                               <<"Could not retrieve the finger print from the given certificate path">>,
                               from_path.res.e)),
                           from_path.reads)
               ELSE from_path
      [] ~certificate_path.some /\ fingerprint.some ->
           LET decoded == decode_fingerprint(fingerprint.v) IN
           IF ~decoded.ok
           THEN Traced(Err(with_context(<<"Error decoding the given fingerprint">>,
                                        decoded.e)),
                       <<>>)
           ELSE Traced(decoded, <<>>)

remove_certificate(a) ==
    LET fingerprint == remove_fingerprint(a.certificate_path, a.fingerprint) IN
    /\ reads' = reads \o fingerprint.reads
    /\ IF ~fingerprint.res.ok
       THEN Fail("remove_certificate", a, fingerprint.res.e)
       ELSE order_request("remove_certificate", a,
                          [type |-> "RemoveCertificate",
                           address |-> a.address,
                           fingerprint |-> fingerprint.res.v])

(***************************************************************************)
(* Specifications                                                          *)
(*                                                                         *)
(* Each call below is one method of CommandManager applied to one command. *)
(* Spec makes MaxCalls calls of any method; the other specifications make  *)
(* calls of one family of commands.                                        *)
(***************************************************************************)
Init ==
    /\ sent = <<>>
    /\ log = <<>>
    /\ reads = <<>>

\* one call: method(c) for some command c of cmds, while fewer than max calls
\* were made; files are read by the certificate methods only
StateCall(max) ==
    /\ Len(log) < max
    /\ UNCHANGED reads
    /\ \/ \E path \in StatePaths : save_state(path) \/ load_state(path)
       \/ \E json \in BOOLEAN : dump_state(json) \/ status(json)
       \/ soft_stop
       \/ hard_stop
       \/ \E path \in {None, Some("config.toml")}, json \in BOOLEAN :
              reload_configuration(path, json)

ListCall(max) ==
    /\ Len(log) < max
    /\ UNCHANGED reads
    /\ \/ \E http \in BOOLEAN, https \in BOOLEAN, tcp \in BOOLEAN,
             domain \in {None, Some("example.com")} :
              list_frontends(http, https, tcp, domain)
       \/ events
       \/ list_listeners
       \/ \E filter \in LoggingLevels : logging_filter(filter)

MetricsCall(cmds, max) ==
    /\ Len(log) < max
    /\ UNCHANGED reads
    /\ \E cmd \in cmds : configure_metrics(cmd)

BackendCall(cmds, max) ==
    /\ Len(log) < max
    /\ UNCHANGED reads
    /\ \E cmd \in cmds : backend_command(cmd)

TcpFrontendCall(cmds, max) ==
    /\ Len(log) < max
    /\ UNCHANGED reads
    /\ \E cmd \in cmds : tcp_frontend_command(cmd)

ClusterCall(cmds, max) ==
    /\ Len(log) < max
    /\ UNCHANGED reads
    /\ \E cmd \in cmds : cluster_command(cmd)

HttpFrontendCall(cmds, max) ==
    /\ Len(log) < max
    /\ UNCHANGED reads
    /\ \E cmd \in cmds : http_frontend_command(cmd)

HttpsFrontendCall(cmds, max) ==
    /\ Len(log) < max
    /\ UNCHANGED reads
    /\ \E cmd \in cmds : https_frontend_command(cmd)

HttpsListenerCall(cmds, max) ==
    /\ Len(log) < max
    /\ UNCHANGED reads
    /\ \E cmd \in cmds : https_listener_command(cmd)

HttpListenerCall(cmds, max) ==
    /\ Len(log) < max
    /\ UNCHANGED reads
    /\ \E cmd \in cmds : http_listener_command(cmd)

TcpListenerCall(cmds, max) ==
    /\ Len(log) < max
    /\ UNCHANGED reads
    /\ \E cmd \in cmds : tcp_listener_command(cmd)

AddCertificateCall(args, max) ==
    /\ Len(log) < max
    /\ \E a \in args : add_certificate(a)

ReplaceCertificateCall(args, max) ==
    /\ Len(log) < max
    /\ \E a \in args : replace_certificate(a)

RemoveCertificateCall(args, max) ==
    /\ Len(log) < max
    /\ \E a \in args : remove_certificate(a)

\* cluster commands, every combination of their fields
NextCluster == ClusterCall(ClusterCmds, MaxCalls)

SpecCluster == Init /\ [][NextCluster]_vars

\* metrics, state, listing and logging commands
NextMetrics ==
    \/ MetricsCall(MetricsCmds, MaxCalls)
    \/ StateCall(MaxCalls)
    \/ ListCall(MaxCalls)

SpecMetrics == Init /\ [][NextMetrics]_vars

\* HTTP and HTTPS frontend commands, every combination of their options
NextFrontend ==
    \/ HttpFrontendCall(HttpFrontendCmds, MaxProbes)
    \/ HttpsFrontendCall(HttpFrontendCmds, MaxProbes)

SpecFrontend == Init /\ [][NextFrontend]_vars

\* listener commands of the three kinds, on every address text
NextListener ==
    \/ HttpsListenerCall(HttpsListenerCmds, MaxCalls)
    \/ HttpListenerCall(HttpListenerCmds, MaxCalls)
    \/ TcpListenerCall(TcpListenerCmds, MaxCalls)

SpecListener == Init /\ [][NextListener]_vars

\* certificate commands, on readable and unreadable files
NextCertificate ==
    \/ AddCertificateCall(AddCertificateArgs, MaxCalls)
    \/ ReplaceCertificateCall(ReplaceCertificateArgs, MaxCalls)
    \/ RemoveCertificateCall(RemoveCertificateArgs, MaxCalls)

SpecCertificate == Init /\ [][NextCertificate]_vars

\* certificate commands that name the certificate by a fingerprint text, for
\* every text of at most MaxHexLen characters of HexAlphabet
HexAlphabet == {"0", "a", "F", "g"}

HexTexts == UNION {[1..n -> HexAlphabet] : n \in 0..MaxHexLen}

ReplaceByFingerprintArgs ==
    [address : CertificateAddresses,
     new_certificate_path : {"cert.pem"},
     new_certificate_chain_path : {"chain.pem"},
     new_key_path : {"key.pem"},
     old_certificate_path : {None},
     old_fingerprint : {Some(f) : f \in HexTexts},
     versions : TlsVersionLists]

RemoveByFingerprintArgs ==
    [address : CertificateAddresses,
     certificate_path : {None},
     fingerprint : {Some(f) : f \in HexTexts}]

NextFingerprint ==
    \/ ReplaceCertificateCall(ReplaceByFingerprintArgs, MaxProbes)
    \/ RemoveCertificateCall(RemoveByFingerprintArgs, MaxProbes)

SpecFingerprint == Init /\ [][NextFingerprint]_vars

\* any method, on a sample of the commands of each family that takes every
\* path through the method
ClusterSamples ==
    {cmd \in ClusterCmds :
        /\ cmd.id = "c1"
        /\ cmd.variant = "Add" =>
              /\ cmd.sticky_session /\ ~cmd.https_redirect
              /\ cmd.send_proxy /\ ~cmd.expect_proxy
              /\ cmd.load_balancing_policy = None}

BackendSamples == {cmd \in BackendCmds : cmd.variant = "Add" => ~cmd.sticky_id.some}

TcpFrontendSamples == {cmd \in TcpFrontendCmds : cmd.variant = "Add" => ~cmd.tags.some}

HttpFrontendSamples ==
    {cmd \in HttpFrontendCmds :
        /\ cmd.path_prefix.some /\ ~cmd.path_regex.some /\ ~cmd.path_equals.some
        /\ ~cmd.method.some /\ ~cmd.cluster_id.deny
        /\ cmd.variant = "Add" => cmd.tags.some}

ListenerSamples(cmds) ==
    {cmd \in cmds :
        /\ cmd.address \in {LocalAddress, NotAnAddress}
        /\ cmd.variant = "Add" => ~cmd.public_address.some /\ ~cmd.expect_proxy}

AddCertificateSamples ==
    {a \in AddCertificateArgs : a.certificate_chain_path = "chain.pem"}

ReplaceCertificateSamples ==
    {a \in ReplaceCertificateArgs :
        /\ a.new_certificate_path = "cert.pem"
        /\ a.new_certificate_chain_path = "chain.pem"
        /\ a.old_certificate_path.some => a.old_certificate_path.v # "garbage.pem"}

RemoveCertificateSamples ==
    {a \in RemoveCertificateArgs :
        a.certificate_path.some => a.certificate_path.v # "garbage.pem"}

Next ==
    \/ StateCall(MaxCalls)
    \/ ListCall(MaxCalls)
    \/ MetricsCall(MetricsCmds, MaxCalls)
    \/ BackendCall(BackendSamples, MaxCalls)
    \/ TcpFrontendCall(TcpFrontendSamples, MaxCalls)
    \/ ClusterCall(ClusterSamples, MaxCalls)
    \/ HttpFrontendCall(HttpFrontendSamples, MaxCalls)
    \/ HttpsFrontendCall(HttpFrontendSamples, MaxCalls)
    \/ HttpsListenerCall(ListenerSamples(HttpsListenerCmds), MaxCalls)
    \/ HttpListenerCall(ListenerSamples(HttpListenerCmds), MaxCalls)
    \/ TcpListenerCall(ListenerSamples(TcpListenerCmds), MaxCalls)
    \/ AddCertificateCall(AddCertificateSamples, MaxCalls)
    \/ ReplaceCertificateCall(ReplaceCertificateSamples, MaxCalls)
    \/ RemoveCertificateCall(RemoveCertificateSamples, MaxCalls)

Spec == Init /\ [][Next]_vars

(***************************************************************************)
(* Properties                                                              *)
(***************************************************************************)
Calls == 1..Len(log)

\* the requests handed to the transport during call i
HandedBy(i) ==
    SubSeq(sent, log[i].at + 1, IF i = Len(log) THEN Len(sent) ELSE log[i + 1].at)

IsClusterAdd(i) == log[i].op = "cluster_command" /\ log[i].args.variant = "Add"

IsClusterRemove(i) == log[i].op = "cluster_command" /\ log[i].args.variant = "Remove"

\* C1: for each of the four combinations of (send_proxy, expect_proxy) of a
\* ClusterCmd::Add, the AddCluster request handed to the transport has
\* proxy_protocol RelayHeader for (true, true), SendHeader for (true, false),
\* ExpectHeader for (false, true) and None for (false, false).
C1_ProxyProtocolTable ==
    \A i \in Calls :
        IsClusterAdd(i) =>
            LET cmd == log[i].args IN
            /\ Len(HandedBy(i)) = 1
            /\ HandedBy(i)[1].type = "AddCluster"
            /\ (cmd.send_proxy /\ cmd.expect_proxy
                   => HandedBy(i)[1].proxy_protocol = Some("RelayHeader"))
            /\ (cmd.send_proxy /\ ~cmd.expect_proxy
                   => HandedBy(i)[1].proxy_protocol = Some("SendHeader"))
            /\ (~cmd.send_proxy /\ cmd.expect_proxy
                   => HandedBy(i)[1].proxy_protocol = Some("ExpectHeader"))
            /\ (~cmd.send_proxy /\ ~cmd.expect_proxy
                   => HandedBy(i)[1].proxy_protocol = None)

\* two cluster additions were made, one with both flags and one with
\* expect_proxy only, and their requests carry RelayHeader and ExpectHeader
C1_Witness ==
    \E i \in Calls, j \in Calls :
        /\ IsClusterAdd(i) /\ IsClusterAdd(j)
        /\ log[i].args.send_proxy /\ log[i].args.expect_proxy
        /\ ~log[j].args.send_proxy /\ log[j].args.expect_proxy
        /\ HandedBy(i)[1].proxy_protocol = Some("RelayHeader")
        /\ HandedBy(j)[1].proxy_protocol = Some("ExpectHeader")

\* C8: a ClusterCmd::Add yields one AddCluster request whose cluster_id,
\* sticky_session, https_redirect and load_balancing are the command's id,
\* sticky_session, https_redirect and load_balancing_policy; a
\* ClusterCmd::Remove yields one RemoveCluster request with the command's id.
C8_ClusterFieldsUnchanged ==
    \A i \in Calls :
        /\ IsClusterAdd(i) =>
              LET cmd == log[i].args IN
              /\ Len(HandedBy(i)) = 1
              /\ HandedBy(i)[1].type = "AddCluster"
              /\ HandedBy(i)[1].cluster_id = cmd.id
              /\ HandedBy(i)[1].sticky_session = cmd.sticky_session
              /\ HandedBy(i)[1].https_redirect = cmd.https_redirect
              /\ HandedBy(i)[1].load_balancing = cmd.load_balancing_policy
        /\ IsClusterRemove(i) =>
              HandedBy(i) = <<[type |-> "RemoveCluster", cluster_id |-> log[i].args.id]>>

\* the cluster "c1" was added with sticky_session and send_proxy only and a
\* load-balancing policy, and a cluster was removed
C8_Witness ==
    \E i \in Calls, j \in Calls :
        /\ IsClusterAdd(i)
        /\ log[i].args.id = "c1"
        /\ log[i].args.sticky_session /\ ~log[i].args.https_redirect
        /\ log[i].args.send_proxy /\ ~log[i].args.expect_proxy
        /\ log[i].args.load_balancing_policy = Some("RoundRobin")
        /\ HandedBy(i)[1].cluster_id = "c1"
        /\ HandedBy(i)[1].sticky_session /\ ~HandedBy(i)[1].https_redirect
        /\ HandedBy(i)[1].load_balancing = Some("RoundRobin")
        /\ IsClusterRemove(j)
        /\ HandedBy(j)[1].type = "RemoveCluster"

\* C9: configure_metrics maps Enable, Disable and Clear to the
\* ConfigureMetrics request with Enabled, Disabled and Clear; any other
\* MetricsCmd fails with the error of the bail! arm and hands no request over.
C9_ConfigureMetrics ==
    \A i \in Calls :
        log[i].op = "configure_metrics" =>
            LET cmd == log[i].args.cmd IN
            /\ cmd = "Enable" =>
                  /\ log[i].err = NoError
                  /\ HandedBy(i) =
                        <<[type |-> "ConfigureMetrics", configuration |-> "Enabled"]>>
            /\ cmd = "Disable" =>
                  /\ log[i].err = NoError
                  /\ HandedBy(i) =
                        <<[type |-> "ConfigureMetrics", configuration |-> "Disabled"]>>
            /\ cmd = "Clear" =>
                  /\ log[i].err = NoError
                  /\ HandedBy(i) =
                        <<[type |-> "ConfigureMetrics", configuration |-> "Clear"]>>
            /\ cmd \notin {"Enable", "Disable", "Clear"} =>
                  /\ log[i].err =
                        <<<<"The command passed to the configure_metrics function is wrong.">>>>
                  /\ HandedBy(i) = <<>>

\* configure_metrics was called with Clear and with another variant than the
\* three: the first handed a Clear configuration over, the second nothing
C9_Witness ==
    \E i \in Calls, j \in Calls :
        /\ log[i].op = "configure_metrics" /\ log[i].args.cmd = "Clear"
        /\ HandedBy(i) = <<[type |-> "ConfigureMetrics", configuration |-> "Clear"]>>
        /\ log[j].op = "configure_metrics" /\ log[j].args.cmd = "Get"
        /\ log[j].err # NoError
        /\ HandedBy(j) = <<>>

\* C4: the requests handed to the transport are one request per call whose
\* construction succeeded, the request that call built, in the order of the
\* calls, and none for a call whose construction failed.
C4_OneRequestPerSuccessfulCall ==
    /\ Len(log) = 0 => sent = <<>>
    /\ Len(log) > 0 => log[1].at = 0
    /\ \A i \in Calls :
          /\ log[i].err = NoError =>
                /\ log[i].req # NoRequest
                /\ HandedBy(i) = <<log[i].req>>
          /\ log[i].err # NoError =>
                /\ log[i].req = NoRequest
                /\ HandedBy(i) = <<>>

\* a call that failed while building its request was followed by a call that
\* succeeded, and the transport holds the request of the second only
C4_Witness ==
    /\ Len(log) = 2
    /\ log[1].err # NoError
    /\ log[2].err = NoError
    /\ sent = <<log[2].req>>

ListenerOps ==
    {"https_listener_command", "http_listener_command", "tcp_listener_command"}

\* the listener kind of a command family
KindOf(op) ==
    CASE op = "https_listener_command" -> "HTTPS"
      [] op = "http_listener_command" -> "HTTP"
      [] op = "tcp_listener_command" -> "TCP"

\* the socket address that a valid address text of the model denotes
AddressOf(text) ==
    CASE text = LocalAddress -> [ip |-> <<127, 0, 0, 1>>, port |-> 8080]
      [] text = PrivateAddress -> [ip |-> <<10, 0, 0, 2>>, port |-> 443]

\* C5: a listener command (add, remove, activate, deactivate; HTTP, HTTPS or
\* TCP) on an address text that is not a socket address fails with a parse
\* error and hands no request over; on a valid address text a remove,
\* activate or deactivate command hands over one RemoveListener,
\* ActivateListener or DeactivateListener request with the parsed address and
\* the listener kind of its family.
C5_ListenerAddress ==
    \A i \in Calls :
        log[i].op \in ListenerOps =>
            LET cmd == log[i].args IN
            /\ cmd.address \in {NotAnAddress, NoPortAddress, BigOctetAddress} =>
                  /\ log[i].err # NoError
                  /\ log[i].err[Len(log[i].err)] = <<"invalid socket address syntax">>
                  /\ cmd.variant # "Add" => log[i].err[1] = <<"wrong socket address">>
                  /\ HandedBy(i) = <<>>
            /\ cmd.address \in {LocalAddress, PrivateAddress} =>
                  /\ cmd.variant = "Remove" =>
                        HandedBy(i) = <<[type |-> "RemoveListener",
                                         address |-> AddressOf(cmd.address),
                                         proxy |-> KindOf(log[i].op)]>>
                  /\ cmd.variant = "Activate" =>
                        HandedBy(i) = <<[type |-> "ActivateListener",
                                         address |-> AddressOf(cmd.address),
                                         proxy |-> KindOf(log[i].op),
                                         from_scm |-> FALSE]>>
                  /\ cmd.variant = "Deactivate" =>
                        HandedBy(i) = <<[type |-> "DeactivateListener",
                                         address |-> AddressOf(cmd.address),
                                         proxy |-> KindOf(log[i].op),
                                         to_scm |-> FALSE]>>

\* a TCP listener was removed on "127.0.0.1:8080", which handed over a
\* RemoveListener of kind TCP, and an HTTPS listener was added on
\* "not-an-address", which failed and handed nothing over
C5_Witness ==
    \E i \in Calls, j \in Calls :
        /\ log[i].op = "tcp_listener_command"
        /\ log[i].args.variant = "Remove"
        /\ log[i].args.address = LocalAddress
        /\ HandedBy(i) = <<[type |-> "RemoveListener",
                            address |-> [ip |-> <<127, 0, 0, 1>>, port |-> 8080],
                            proxy |-> "TCP"]>>
        /\ log[j].op = "https_listener_command"
        /\ log[j].args.variant = "Add"
        /\ log[j].args.address = NotAnAddress
        /\ log[j].err # NoError
        /\ HandedBy(j) = <<>>

\* the paths of the model that cannot be read
Unreadable == {"nocert.pem", "nochain.pem", "nokey.pem"}

\* the error of load_full_certificate that names the path q of a file
NamesPath(err, q) ==
    /\ Len(err) >= 2
    /\ err[1] = <<"Could not load the full certificate">>
    /\ Len(err[2]) = 2
    /\ err[2][2] = q

\* the first of the certificate, chain and key paths that cannot be read
FirstUnreadable(certificate_path, certificate_chain_path, key_path) ==
    CASE certificate_path \in Unreadable -> certificate_path
      [] certificate_chain_path \in Unreadable -> certificate_chain_path
      [] OTHER -> key_path

\* C7: loading a certificate bundle fails when one of the certificate, chain
\* and key files cannot be read, with an error that names the first of them
\* (in the order certificate, chain, key) that cannot be read, and
\* add_certificate and replace_certificate then hand no request over.
C7_LoadNamesFirstUnreadable ==
    \A i \in Calls :
        /\ log[i].op = "add_certificate" =>
              LET a == log[i].args IN
              IF {a.certificate_path, a.certificate_chain_path, a.key_path}
                     \cap Unreadable # {}
              THEN /\ NamesPath(log[i].err,
                                FirstUnreadable(a.certificate_path,
                                                a.certificate_chain_path, a.key_path))
                   /\ HandedBy(i) = <<>>
              ELSE /\ log[i].err = NoError
                   /\ Len(HandedBy(i)) = 1
                   /\ HandedBy(i)[1].type = "AddCertificate"
        /\ log[i].op = "replace_certificate" =>
              LET a == log[i].args IN
              {a.new_certificate_path, a.new_certificate_chain_path, a.new_key_path}
                  \cap Unreadable # {} =>
                  /\ HandedBy(i) = <<>>
                  /\ log[i].err # NoError
                  /\ log[i].err[1] = <<"Could not load the full certificate">> =>
                        NamesPath(log[i].err,
                                  FirstUnreadable(a.new_certificate_path,
                                                  a.new_certificate_chain_path,
                                                  a.new_key_path))

\* add_certificate was called with a readable certificate and an unreadable
\* chain and key: it failed with the error that names the chain, having read
\* the certificate and tried the chain only
C7_Witness ==
    \E i \in Calls :
        /\ log[i].op = "add_certificate"
        /\ log[i].args.certificate_path = "cert.pem"
        /\ log[i].args.certificate_chain_path = "nochain.pem"
        /\ log[i].args.key_path = "nokey.pem"
        /\ NamesPath(log[i].err, "nochain.pem")
        /\ HandedBy(i) = <<>>
        /\ Len(log) = 1
        /\ reads = <<"cert.pem", "nochain.pem">>

CertificateIdentityOps == {"remove_certificate", "replace_certificate"}

\* the (path option, fingerprint option) pair of a certificate command
PathOption(i) ==
    IF log[i].op = "remove_certificate"
    THEN log[i].args.certificate_path ELSE log[i].args.old_certificate_path

FingerprintOption(i) ==
    IF log[i].op = "remove_certificate"
    THEN log[i].args.fingerprint ELSE log[i].args.old_fingerprint

\* the fingerprint that identifies the certificate in a request
FingerprintIn(request) ==
    IF request.type = "RemoveCertificate"
    THEN request.fingerprint ELSE request.old_fingerprint

\* the new certificate, chain and key of a replace_certificate can be read
NewBundleReadable(i) ==
    {log[i].args.new_certificate_path, log[i].args.new_certificate_chain_path,
     log[i].args.new_key_path} \cap Unreadable = {}

\* call i hands over a request in which the certificate has fingerprint fp,
\* unless it is a replace_certificate whose new bundle cannot be read
IdentifiesBy(i, fp) ==
    IF log[i].op = "replace_certificate" /\ ~NewBundleReadable(i)
    THEN HandedBy(i) = <<>>
    ELSE /\ Len(HandedBy(i)) = 1
         /\ HandedBy(i)[1].type =
               (IF log[i].op = "remove_certificate"
                THEN "RemoveCertificate" ELSE "ReplaceCertificate")
         /\ FingerprintIn(HandedBy(i)[1]) = fp

\* C2: in remove_certificate and replace_certificate, with neither or both of
\* the path and the fingerprint the command fails and hands nothing over;
\* with a path only, the fingerprint of the request is the one computed from
\* the bytes of that file; with a fingerprint text only, it is the
\* hex-decoding of the text.
C2_ExactlyOneOfPathAndFingerprint ==
    \A i \in Calls :
        log[i].op \in CertificateIdentityOps =>
            LET path == PathOption(i)
                fingerprint == FingerprintOption(i)
            IN  /\ path.some = fingerprint.some =>
                      /\ log[i].err # NoError
                      /\ HandedBy(i) = <<>>
                /\ path.some /\ ~fingerprint.some =>
                      IF path.v = "cert.pem"
                      THEN IdentifiesBy(i, calculate_fingerprint(CertificateFile).v)
                      ELSE log[i].err # NoError /\ HandedBy(i) = <<>>
                /\ ~path.some /\ fingerprint.some =>
                      IF fingerprint.v = <<"a", "0">>
                      THEN IdentifiesBy(i, <<160>>)
                      ELSE log[i].err # NoError /\ HandedBy(i) = <<>>

\* remove_certificate failed with both a path and a fingerprint, and
\* replace_certificate, with the path of the old certificate only, handed over
\* a request with the fingerprint of that file
C2_Witness ==
    \E i \in Calls, j \in Calls :
        /\ log[i].op = "remove_certificate"
        /\ log[i].args.certificate_path = Some("cert.pem")
        /\ log[i].args.fingerprint = Some(<<"a", "0">>)
        /\ log[i].err # NoError
        /\ HandedBy(i) = <<>>
        /\ log[j].op = "replace_certificate"
        /\ log[j].args.old_certificate_path = Some("cert.pem")
        /\ log[j].args.old_fingerprint = None
        /\ Len(HandedBy(j)) = 1
        /\ HandedBy(j)[1].old_fingerprint = calculate_fingerprint(CertificateFile).v

\* a replace_certificate i and a remove_certificate j that name the
\* certificate by the same (path option, fingerprint option), the new bundle
\* of i being readable
SameIdentityArgs(i, j) ==
    /\ log[i].op = "replace_certificate"
    /\ log[j].op = "remove_certificate"
    /\ NewBundleReadable(i)
    /\ PathOption(i).some = PathOption(j).some
    /\ FingerprintOption(i).some = FingerprintOption(j).some
    /\ PathOption(i).some => PathOption(i).v = PathOption(j).v
    /\ FingerprintOption(i).some => FingerprintOption(i).v = FingerprintOption(j).v

\* C3 as stated: on the same (path option, fingerprint option) the replace and
\* the remove flow fail with the same diagnostic or succeed with the same
\* fingerprint.
C3_SameDiagnostic ==
    \A i \in Calls, j \in Calls :
        SameIdentityArgs(i, j) =>
            /\ log[i].err = log[j].err
            /\ log[i].err = NoError =>
                  /\ Len(HandedBy(i)) = 1 /\ Len(HandedBy(j)) = 1
                  /\ HandedBy(i)[1].old_fingerprint = HandedBy(j)[1].fingerprint

\* the causes of an error beneath its outermost message
Causes(err) == SubSeq(err, 2, Len(err))

\* C3: on the same (path option, fingerprint option) the replace and the
\* remove flow both fail or both succeed; a success gives the same
\* fingerprint; a failure has the same causes beneath the outermost message,
\* and each flow has one message of its own for neither and for both; the
\* outermost message is the same in both flows for a failed hex decode only.
C3_SameOutcome ==
    \A i \in Calls, j \in Calls :
        SameIdentityArgs(i, j) =>
            /\ (log[i].err = NoError) = (log[j].err = NoError)
            /\ log[i].err = NoError =>
                  /\ Len(HandedBy(i)) = 1 /\ Len(HandedBy(j)) = 1
                  /\ HandedBy(i)[1].old_fingerprint = HandedBy(j)[1].fingerprint
            /\ log[i].err # NoError =>
                  /\ Causes(log[i].err) = Causes(log[j].err)
                  /\ PathOption(i).some = FingerprintOption(i).some =>
                        /\ log[i].err =
                              <<<<"Error: Please provide either one, the old certificate's path OR its fingerprint">>>>
                        /\ log[j].err =
                              <<<<"Error: Please provide either one, the path OR the fingerprint of the certificate">>>>
                  /\ ~PathOption(i).some /\ FingerprintOption(i).some =>
                        /\ log[i].err = log[j].err
                        /\ log[i].err[1] = <<"Error decoding the given fingerprint">>
                  /\ PathOption(i).some /\ ~FingerprintOption(i).some =>
                        /\ log[i].err[1] =
                              <<"Could not retrieve the fingerprint from the given certificate path">>
                        /\ log[j].err[1] =
                              <<"Could not retrieve the finger print from the given certificate path">>

\* a replace_certificate and a remove_certificate were both given the path of
\* a file that cannot be read and no fingerprint: both failed, with the same
\* causes and a different outermost message
C3_Witness ==
    \E i \in Calls, j \in Calls :
        /\ SameIdentityArgs(i, j)
        /\ PathOption(i) = Some("nocert.pem")
        /\ FingerprintOption(i) = None
        /\ log[i].err # NoError /\ log[j].err # NoError
        /\ Causes(log[i].err) = Causes(log[j].err)
        /\ log[i].err[1] # log[j].err[1]
        /\ sent = <<>>

\* the hexadecimal digits, and the lower-case form of a character
HexDigitChars ==
    {"0", "1", "2", "3", "4", "5", "6", "7", "8", "9",
     "a", "b", "c", "d", "e", "f", "A", "B", "C", "D", "E", "F"}

LowerCase(c) ==
    CASE c = "A" -> "a" [] c = "B" -> "b" [] c = "C" -> "c"
      [] c = "D" -> "d" [] c = "E" -> "e" [] c = "F" -> "f"
      [] OTHER -> c

\* the bytes of a fingerprint written as lower-case hexadecimal text
LowerHexDigits ==
    <<"0", "1", "2", "3", "4", "5", "6", "7", "8", "9", "a", "b", "c", "d", "e", "f">>

HexEncode(bytes) ==
    [k \in 1..(2 * Len(bytes)) |->
        IF k % 2 = 1
        THEN LowerHexDigits[(bytes[(k + 1) \div 2] \div 16) + 1]
        ELSE LowerHexDigits[(bytes[k \div 2] % 16) + 1]]

IsHexText(text) ==
    /\ Len(text) % 2 = 0
    /\ \A k \in 1..Len(text) : text[k] \in HexDigitChars

\* C6: decode_fingerprint accepts exactly the even-length texts of
\* hexadecimal digits: the fingerprint of such a text, written as hexadecimal,
\* is the text up to letter case; a text of odd length or with another
\* character is rejected with a decoding error, and remove_certificate and
\* replace_certificate then hand no request over.
C6_DecodeFingerprint ==
    \A i \in Calls :
        (log[i].op \in CertificateIdentityOps
            /\ ~PathOption(i).some /\ FingerprintOption(i).some) =>
            LET text == FingerprintOption(i).v IN
            IF IsHexText(text)
            THEN /\ log[i].err = NoError \/ ~NewBundleReadable(i)
                 /\ \A k \in 1..Len(HandedBy(i)) :
                       HexEncode(FingerprintIn(HandedBy(i)[k]))
                           = [n \in 1..Len(text) |-> LowerCase(text[n])]
                 /\ (log[i].op = "remove_certificate" \/ NewBundleReadable(i))
                       => Len(HandedBy(i)) = 1
            ELSE /\ Len(log[i].err) = 3
                 /\ log[i].err[1] = <<"Error decoding the given fingerprint">>
                 /\ log[i].err[2] =
                       <<"Failed at decoding the string (expected hexadecimal data)">>
                 /\ HandedBy(i) = <<>>

\* remove_certificate was given the fingerprint text "aF", which names the
\* certificate with fingerprint af in its request
C6_Witness ==
    \E i \in Calls :
        /\ log[i].op = "remove_certificate"
        /\ log[i].args.certificate_path = None
        /\ log[i].args.fingerprint = Some(<<"a", "F">>)
        /\ HandedBy(i) = <<[type |-> "RemoveCertificate",
                            address |-> log[i].args.address,
                            fingerprint |-> <<175>>]>>
        /\ HexEncode(<<175>>) = <<"a", "f">>

FrontendOps == {"http_frontend_command", "https_frontend_command"}

\* the Add command with the fields of a frontend command and the given tags
AsAdd(cmd, tags) ==
    [variant |-> "Add", hostname |-> cmd.hostname, path_prefix |-> cmd.path_prefix,
     path_regex |-> cmd.path_regex, path_equals |-> cmd.path_equals,
     address |-> cmd.address, method |-> cmd.method, cluster_id |-> cmd.cluster_id,
     tags |-> tags]

\* the descriptors that the Add and the Remove arm of a handler build
AddDescriptor(op, cmd) ==
    IF op = "http_frontend_command" THEN AddFrontend(cmd) ELSE AddHttpsFrontend(cmd)

RemoveDescriptor(op, cmd) ==
    IF op = "http_frontend_command" THEN RemoveFrontend(cmd) ELSE RemoveHttpsFrontend(cmd)

OtherFrontendOp(op) ==
    IF op = "http_frontend_command" THEN "https_frontend_command"
    ELSE "http_frontend_command"

RequestTypeOf(op, variant) ==
    CASE op = "http_frontend_command" /\ variant = "Add" -> "AddHttpFrontend"
      [] op = "http_frontend_command" /\ variant = "Remove" -> "RemoveHttpFrontend"
      [] op = "https_frontend_command" /\ variant = "Add" -> "AddHttpsFrontend"
      [] op = "https_frontend_command" /\ variant = "Remove" -> "RemoveHttpsFrontend"

\* C10: for the same hostname, path options, address, method and cluster_id,
\* the descriptor of the Remove request of an HTTP (or HTTPS) frontend is the
\* descriptor of the Add request in every field but tags (position is Tree in
\* both); tags are the supplied tags, or empty, on Add and empty on Remove;
\* the HTTP and the HTTPS handler build the same descriptor under a different
\* request variant.
C10_FrontendAddRemove ==
    \A i \in Calls :
        log[i].op \in FrontendOps =>
            LET op == log[i].op
                cmd == log[i].args
            IN  /\ Len(HandedBy(i)) = 1
                /\ HandedBy(i)[1].type = RequestTypeOf(op, cmd.variant)
                /\ HandedBy(i)[1].frontend.position = "Tree"
                /\ cmd.variant = "Add" =>
                      LET added == HandedBy(i)[1].frontend IN
                      /\ added.tags = (IF cmd.tags.some THEN cmd.tags.v ELSE {})
                      /\ [added EXCEPT !.tags = {}] = RemoveDescriptor(op, cmd)
                      /\ added = AddDescriptor(OtherFrontendOp(op), cmd)
                /\ cmd.variant = "Remove" =>
                      LET removed == HandedBy(i)[1].frontend IN
                      /\ removed.tags = {}
                      /\ \A tags \in {None, Some({<<"owner", "ops">>})} :
                            [AddDescriptor(op, AsAdd(cmd, tags)) EXCEPT !.tags = {}]
                                = removed
                      /\ removed = RemoveDescriptor(OtherFrontendOp(op), cmd)

\* an HTTPS frontend with a method, a path prefix and tags was added: its
\* descriptor has the tags, and without them it is the descriptor that the
\* Remove arm builds from the same fields
C10_Witness ==
    \E i \in Calls :
        /\ log[i].op = "https_frontend_command"
        /\ log[i].args.variant = "Add"
        /\ log[i].args.method = Some("GET")
        /\ log[i].args.path_prefix = Some("/api")
        /\ log[i].args.tags = Some({<<"owner", "ops">>})
        /\ HandedBy(i)[1].type = "AddHttpsFrontend"
        /\ HandedBy(i)[1].frontend.tags = {<<"owner", "ops">>}
        /\ HandedBy(i)[1].frontend.method = Some("GET")
        /\ HandedBy(i)[1].frontend # RemoveHttpsFrontend(log[i].args)
        /\ [HandedBy(i)[1].frontend EXCEPT !.tags = {}] = RemoveHttpsFrontend(log[i].args)

\* the old certificate of a replace_certificate with arguments a is named by
\* exactly one of a path and a fingerprint text, and the path is the one of a
\* certificate, or the text is hexadecimal
IdentityResolves(a) ==
    \/ /\ a.old_certificate_path.some /\ ~a.old_fingerprint.some
       /\ a.old_certificate_path.v = "cert.pem"
    \/ /\ ~a.old_certificate_path.some /\ a.old_fingerprint.some
       /\ IsHexText(a.old_fingerprint.v)

\* the outermost messages of the errors of the identity of the old certificate
IdentityMessages ==
    {<<"Error: Please provide either one, the old certificate's path OR its fingerprint">>,
     <<"Could not retrieve the fingerprint from the given certificate path">>,
     <<"Error decoding the given fingerprint">>}

\* the files read to resolve the identity of the old certificate
IdentityReads(a) ==
    IF a.old_certificate_path.some /\ ~a.old_fingerprint.some
    THEN <<a.old_certificate_path.v>> ELSE <<>>

\* C11: replace_certificate resolves the identity of the old certificate, then
\* loads the new bundle, then hands the request over: when the identity does
\* not resolve, the call fails with the identity error whether or not the new
\* files can be read, and reads none of them; when it resolves and a new file
\* cannot be read, the call fails with the load error, having read the new
\* files after the old one up to the first that cannot be read, and hands no
\* request over.
C11_IdentityThenLoadThenHandOver ==
    [][(Len(log') = Len(log) + 1 /\ log'[Len(log')].op = "replace_certificate") =>
          LET call == log'[Len(log')]
              a == call.args
              read == SubSeq(reads', Len(reads) + 1, Len(reads'))
              first == FirstUnreadable(a.new_certificate_path,
                                       a.new_certificate_chain_path, a.new_key_path)
              bundle == <<a.new_certificate_path, a.new_certificate_chain_path,
                          a.new_key_path>>
              unreadable ==
                  {a.new_certificate_path, a.new_certificate_chain_path,
                   a.new_key_path} \cap Unreadable # {}
          IN  /\ SubSeq(reads', 1, Len(reads)) = reads
              /\ ~IdentityResolves(a) =>
                    /\ call.err # NoError
                    /\ call.err[1] \in IdentityMessages
                    /\ read = IdentityReads(a)
                    /\ sent' = sent
              /\ IdentityResolves(a) /\ unreadable =>
                    /\ NamesPath(call.err, first)
                    /\ read = IdentityReads(a)
                                \o SubSeq(bundle, 1,
                                          CHOOSE k \in 1..3 : bundle[k] = first
                                              /\ \A n \in 1..(k - 1) : bundle[n] # first)
                    /\ sent' = sent
              /\ IdentityResolves(a) /\ ~unreadable =>
                    /\ call.err = NoError
                    /\ read = IdentityReads(a) \o bundle
                    /\ sent' = Append(sent, call.req)
                    /\ call.req.type = "ReplaceCertificate"]_vars

\* replace_certificate was called with neither a path nor a fingerprint and a
\* key that cannot be read, which failed with the identity error and read no
\* file; then with a fingerprint and that key, which failed with the load
\* error after reading the certificate and the chain, and handed nothing over
C11_Witness ==
    /\ Len(log) = 2
    /\ log[1].op = "replace_certificate" /\ log[2].op = "replace_certificate"
    /\ log[1].args.old_certificate_path = None /\ log[1].args.old_fingerprint = None
    /\ log[1].args.new_key_path = "nokey.pem"
    /\ log[1].err[1] \in IdentityMessages
    /\ log[2].args.old_certificate_path = None
    /\ log[2].args.old_fingerprint = Some(<<"a", "0">>)
    /\ log[2].args.new_certificate_path = "cert.pem"
    /\ log[2].args.new_certificate_chain_path = "chain.pem"
    /\ log[2].args.new_key_path = "nokey.pem"
    /\ NamesPath(log[2].err, "nokey.pem")
    /\ reads = <<"cert.pem", "chain.pem", "nokey.pem">>
    /\ sent = <<>>

====
